---- MODULE Spec2Model ----
(***************************************************************************)
(* State-machine model of the brainiac5 React frontend: the Tags and Ideas *)
(* page (the tag/idea aggregator and the delete-tag flow), the Login page  *)
(* with the Navbar logout, and the Dashboard.  Every await of the source   *)
(* is a point where the handler is suspended; the code between two awaits  *)
(* (with the microtask continuations it triggers) is one atomic action.    *)
(***************************************************************************)
EXTENDS Integers, Sequences, FiniteSets, TLC

\* Total number of fetchTagsAndIdeas runs (and delete-tag requests) explored.
MaxRuns == 2

\* Total number of requests the Dashboard issues.
MaxRequests == 4

\* Longest list of ideas a response carries, and of tags the modal holds.
MaxListLen == 2

\* Time steps the verifier's clock advances through.
MaxStep == 2

\* ------------------------------------------------------------------------
\* Data returned by the collaborators (GET /tags, /ideas/tags/:t, /ideas)
\* ------------------------------------------------------------------------

\* A field that is missing from a response object (undefined / null).
Absent == "<absent>"

TagNames == {"Alpha", "Beta"}

\* Idea records as the Idea Store returns them.  Id 0, the empty title and
\* the absent content are the falsy values the page's code tests for.
IdeaPool ==
  { [id |-> 0, title |-> "", content |-> "c0"],
    [id |-> 1, title |-> "T1", content |-> Absent],
    [id |-> 2, title |-> Absent, content |-> "c2"] }

\* The ideas the store holds while the page's user events are explored.
PagePool == {i \in IdeaPool : i.id = 1}

Range(s) == {s[i] : i \in DOMAIN s}

NoRepeat(s) == \A i, j \in DOMAIN s : i # j => s[i] # s[j]

Min(a, b) == IF a < b THEN a ELSE b

SeqsNoRepeat(S, maxLen) ==
  {s \in UNION {[1..n -> S] : n \in 0..Min(maxLen, Cardinality(S))} :
     NoRepeat(s)}

\* Possible bodies of the list-tags response: ordered {name} records.
TagLists == SeqsNoRepeat({[name |-> n] : n \in TagNames}, Cardinality(TagNames))

\* Possible bodies of a list-ideas response (ids are unique in the store).
IdeaLists == SeqsNoRepeat(IdeaPool, MaxListLen)

PageIdeaLists == SeqsNoRepeat(PagePool, MaxListLen)

\* The list-tags responses while the page's user events are explored: the
\* store holds no tag, Alpha, or Alpha and Beta.
PageTagLists ==
  {SubSeq(<< [name |-> "Alpha"], [name |-> "Beta"] >>, 1, n) : n \in 0..2}

\* JavaScript truthiness of an id and of a string field.
TruthyId(v) == v # 0

TruthyStr(v) == v # "" /\ v # Absent

\* useState(null) of the error message.
Null == "null"

LoadFailedMsg == "Failed to load tags and ideas. Please try again."

DeleteFailedMsg == "Failed to delete tag. Please try again."

VARIABLES
  \* TagsIdeasPage component state (useState hooks)
  tags, untaggedIdeas, isLoading, isRefreshing, error,
  showDeleteModal, tagToDelete, isDeleting,
  \* the page's suspended async flows
  mounted,      \* the mount effect has run
  nruns,        \* number of fetchTagsAndIdeas runs started so far
  runs,         \* run number -> the run's local state
  deleting,     \* delete-tag requests in flight (tag names, in issue order)
  \* history: which run wrote the displayed state and from what responses
  \* (tagsSrc: the per-tag response bodies, in the order of the tags),
  \* how many runs finished without a failure, and what the run that
  \* finished in the last step did
  tagsFrom, tagsOrder, tagsSrc, untaggedFrom, untaggedSrc, okRuns, lastDone,
  \* the browser: current route and localStorage.getItem('isAuthenticated')
  route, isAuthenticated,
  \* Login component state (useState hooks; isLoading and error of Login)
  email, otpCode, loginLoading, loginError, success,
  loginReq,     \* the verify-OTP request in flight, if any
  \* history: the verifier accepted a code since the last logout; what the
  \* last submission did; the outcomes of the answered failed verifications
  verified, lastSubmit, outcomes,
  now,          \* the verifier's clock: the current 30-second time step
  lastVerify,   \* history: the verification answered in the last step
  \* Dashboard component state (useState hooks; isLoading of Dashboard)
  ideas, dashLoading, isModalOpen, editingIdea,
  dashMounted,  \* the Dashboard's mount effect has run
  dashPending,  \* the Dashboard's requests in flight
  dashIssued,   \* number of requests the Dashboard has issued or reserved
  alerts,       \* window.alert dialogs shown so far
  dashFailure,  \* history: the last failed request and whether it was shown
  \* Dashboard search state (useState hooks)
  searchTerm, similarIdeas, isSearchingSimilar, showSimilarResults,
  typedSince,   \* history: the search box changed since the last Similar click
  \* IdeaModal component state (useState hooks; tags of IdeaModal)
  formData, currentTag, modalTags, isSaving,
  formInvalid,  \* the required field the browser last reported as missing
  \* history: the idea of the last successful save with the tag list it was
  \* built from; the tags text the modal last parsed with the list it got
  stored, opened,
  lastOpen,     \* history: the button that last opened the modal, and its idea
  \* TableOfContents component state (useState hooks; isLoading,
  \* isRefreshing and error of TableOfContents)
  tocStructure, tocLoading, showModal, modalContent, tocRefreshing, tocError,
  tocMounted,   \* the page's mount effect has run
  tocPending,   \* the page's requests in flight
  tocIssued     \* number of requests issued or reserved by Refresh clicks

tagsVars ==
  << tags, untaggedIdeas, isLoading, isRefreshing, error, showDeleteModal,
     tagToDelete, isDeleting, mounted, nruns, runs, deleting,
     tagsFrom, tagsOrder, tagsSrc, untaggedFrom, untaggedSrc, okRuns,
     lastDone >>

modalVars == << showDeleteModal, tagToDelete, isDeleting >>

histVars ==
  << tagsFrom, tagsOrder, tagsSrc, untaggedFrom, untaggedSrc, okRuns >>

loginVars ==
  << route, isAuthenticated, email, otpCode, loginLoading, loginError, success,
     loginReq, verified, lastSubmit, outcomes, now, lastVerify >>

dashVars ==
  << ideas, dashLoading, isModalOpen, editingIdea, dashMounted, dashPending,
     dashIssued, alerts, dashFailure, searchTerm, similarIdeas,
     isSearchingSimilar, showSimilarResults, typedSince, formData, currentTag,
     modalTags, isSaving, formInvalid, stored, opened, lastOpen >>

\* What an action of one page leaves alone: the other pages.
tocVars ==
  << tocStructure, tocLoading, showModal, modalContent, tocRefreshing,
     tocError, tocMounted, tocPending, tocIssued >>

offTags == << loginVars, dashVars, tocVars >>

offLogin == << tagsVars, dashVars, tocVars >>

offDash == << tagsVars, loginVars, tocVars >>

offToc == << tagsVars, loginVars, dashVars >>

vars == << tagsVars, loginVars, dashVars, tocVars >>

\* ------------------------------------------------------------------------
\* Pure parts of fetchTagsAndIdeas
\* ------------------------------------------------------------------------

\* A variant of the projection without the fallbacks.
LeafAsReturned(idea) ==
  [id |-> idea.id, name |-> idea.title, description |-> idea.content]

\* idea => ({id, name: title || 'Untitled Idea', description: content || ''})
Leaf(idea) ==
  [ id |-> idea.id,
    name |-> IF TruthyStr(idea.title) THEN idea.title ELSE "Untitled Idea",
    description |-> IF TruthyStr(idea.content) THEN idea.content ELSE "" ]

MapLeaf(ideasData) == [i \in DOMAIN ideasData |-> Leaf(ideasData[i])]

\* The value one element of tagsData.map(async ...) resolves to.
TagNode(tag, ideasData) == [name |-> tag.name, ideas |-> MapLeaf(ideasData)]

\* Promise.all resolves to the results in the order of its input array,
\* whatever the order `arrived` in which the elements settled.
JoinResultsByArrival(resp, arrived) ==
  [k \in DOMAIN arrived |-> resp[arrived[k]].node]

JoinResults(resp, arrived) == [i \in DOMAIN resp |-> resp[i].node]

\* taggedIdeaIds: ids are added only when truthy.
TaggedAllIds(tagsWithIdeas) ==
  {idea.id : idea \in UNION {Range(t.ideas) : t \in Range(tagsWithIdeas)}}

TaggedIdeaIds(tagsWithIdeas) ==
  {v \in TaggedAllIds(tagsWithIdeas) : TruthyId(v)}

\* allIdeasData.filter(idea => !taggedIdeaIds.has(idea.id)).map(...)
Untagged(allIdeasData, tagsWithIdeas) ==
  LET NotTagged(idea) == idea.id \notin TaggedIdeaIds(tagsWithIdeas)
  IN  MapLeaf(SelectSeq(allIdeasData, NotTagged))

\* ------------------------------------------------------------------------
\* TagItem: how a node of the hierarchy is rendered
\* ------------------------------------------------------------------------

\* const hasIdeas = item.ideas && item.ideas.length > 0
HasIdeas(item) == "ideas" \in DOMAIN item /\ Len(item.ideas) > 0

\* const isActualIdea = item.description && item.description !== ''
IsActualIdea(item) == "description" \in DOMAIN item /\ item.description # ""

\* A variant that takes every node with a description field for an idea.
ItemKindByField(item) ==
  IF HasIdeas(item) THEN "tag"
  ELSE IF "description" \in DOMAIN item THEN "idea" ELSE "emptyTag"

\* TagItem's three branches: if (isTag) ... else if (isActualIdea) ... else
ItemKind(item) ==
  IF HasIdeas(item) THEN "tag"
  ELSE IF IsActualIdea(item) THEN "idea" ELSE "emptyTag"

\* Names next to which a trash button (onDeleteTag(item.name)) is rendered:
\* the top-level nodes, their children and the untagged ideas that TagItem
\* takes for a tag without ideas.
DeletableNames ==
  {t.name : t \in {x \in Range(tags) : ItemKind(x) = "emptyTag"}}
  \cup {l.name : l \in {x \in UNION {Range(t.ideas) : t \in Range(tags)} :
                         ItemKind(x) = "emptyTag"}}
  \cup {l.name : l \in {x \in Range(untaggedIdeas) : ItemKind(x) = "emptyTag"}}

\* ------------------------------------------------------------------------
\* fetchTagsAndIdeas: one run
\* ------------------------------------------------------------------------

IdleRun ==
  [ pc |-> "idle",         \* idle, getTags, perTag, getIdeas, done
    origin |-> "none",     \* mount, refresh, delete: who awaits the run
    tagsData |-> << >>,    \* tagsResponse.data
    resp |-> << >>,        \* per tag: pending, or the resolved tag node
    arrived |-> << >>,     \* indexes of the per-tag fetches, as they settled
    tagsWithIdeas |-> << >>,
    stray |-> 0,           \* per-tag fetches still in flight after the catch
    nOk |-> 0,             \* per-tag fetches that succeeded
    reqs |-> 0,            \* requests the run issued
    errs |-> 0 ]           \* setError(message) calls of the run

NoRunDone ==
  [run |-> 0, failed |-> "none", nOk |-> 0, reqs |-> 0, errs |-> 0,
   kept |-> TRUE]

Pending(tag) ==
  [ st |-> "pending", node |-> [name |-> tag.name, ideas |-> << >>],
    data |-> << >> ]

\* A fetch run or a delete request may still be started.
Budget == nruns + Len(deleting) < MaxRuns

\* try { setIsLoading(true); setError(null); ... await getTags()
StartFetch(o) ==
  /\ nruns < MaxRuns
  /\ nruns' = nruns + 1
  /\ runs' = [runs EXCEPT ![nruns + 1] =
                [IdleRun EXCEPT !.pc = "getTags", !.origin = o, !.reqs = 1]]
  /\ isLoading' = TRUE
  /\ error' = Null

\* What the caller does once `await fetchTagsAndIdeas()` has resolved (the
\* run never rejects: its catch swallows every failure).
AfterFetch(o) ==
  /\ isRefreshing' = IF o = "refresh" THEN FALSE ELSE isRefreshing
  /\ showDeleteModal' = IF o = "delete" THEN FALSE ELSE showDeleteModal
  /\ tagToDelete' = IF o = "delete" THEN "" ELSE tagToDelete
  /\ isDeleting' = IF o = "delete" THEN FALSE ELSE isDeleting

\* finally { setIsLoading(false) }, and the caller's continuation
Finally(r, what, inFlight) ==
  /\ isLoading' = FALSE
  /\ AfterFetch(runs[r].origin)
  /\ runs' = [runs EXCEPT ![r] =
                [IdleRun EXCEPT !.pc = "done", !.stray = inFlight]]
  /\ lastDone' = [ run |-> r, failed |-> what,
                   nOk |-> runs[r].nOk, reqs |-> runs[r].reqs,
                   errs |-> IF what = "none" THEN runs[r].errs
                            ELSE runs[r].errs + 1,
                   \* its last step left the displayed state as it was
                   kept |-> tags' = tags /\ untaggedIdeas' = untaggedIdeas ]

\* catch (err) { setError('Failed to load ...') } finally { ... }
Catch(r, what, inFlight) ==
  /\ error' = LoadFailedMsg
  /\ Finally(r, what, inFlight)

\* Promise.all resolved: setTags(tagsWithIdeas), then await getIdeas().
Resolved(r, td, tagsWithIdeas, arrived, fetched) ==
  /\ tags' = tagsWithIdeas
  /\ tagsFrom' = r
  /\ tagsOrder' = [i \in DOMAIN td |-> td[i].name]
  /\ tagsSrc' = fetched
  /\ runs' = [runs EXCEPT ![r] =
                [IdleRun EXCEPT !.pc = "getIdeas", !.origin = runs[r].origin,
                                !.tagsWithIdeas = tagsWithIdeas,
                                !.arrived = arrived,
                                !.nOk = Len(tagsWithIdeas),
                                !.reqs = 1 + Len(td) + 1]]

GetTagsOk(r, td) ==
  /\ runs[r].pc = "getTags"
  /\ IF td = << >>
     THEN Resolved(r, td, << >>, << >>, << >>)
     ELSE /\ runs' = [runs EXCEPT ![r] =
                        [@ EXCEPT !.pc = "perTag", !.tagsData = td,
                                  !.resp = [i \in DOMAIN td |-> Pending(td[i])],
                                  !.reqs = @ + Len(td)]]
          /\ UNCHANGED << tags, tagsFrom, tagsOrder, tagsSrc >>
  /\ lastDone' = NoRunDone
  /\ UNCHANGED << offTags, untaggedIdeas, isLoading, isRefreshing, error,
                  modalVars, mounted, nruns, deleting, untaggedFrom,
                  untaggedSrc, okRuns >>

\* getTags rejected: nothing was fetched or set; the catch reports it.
GetTagsFailClears(r) ==
  /\ runs[r].pc = "getTags"
  /\ tags' = << >>
  /\ tagsFrom' = r
  /\ tagsOrder' = << >>
  /\ tagsSrc' = << >>
  /\ UNCHANGED untaggedIdeas
  /\ Catch(r, "tags", 0)
  /\ UNCHANGED << offTags, mounted, nruns, deleting, untaggedFrom, untaggedSrc,
                  okRuns >>

GetTagsFail(r) ==
  /\ runs[r].pc = "getTags"
  /\ UNCHANGED << tags, untaggedIdeas >>
  /\ Catch(r, "tags", 0)
  /\ UNCHANGED << offTags, mounted, nruns, deleting, histVars >>

PerTagOk(r, i, data) ==
  LET run == runs[r]
      resp2 == [run.resp EXCEPT
                  ![i] = [ st |-> "ok", node |-> TagNode(run.tagsData[i], data),
                           data |-> data ]]
      arrived2 == Append(run.arrived, i)
  IN  /\ run.pc = "perTag"
      /\ i \in DOMAIN run.resp
      /\ run.resp[i].st = "pending"
      /\ IF \A j \in DOMAIN resp2 : resp2[j].st = "ok"
         THEN Resolved(r, run.tagsData, JoinResults(resp2, arrived2), arrived2,
                       [j \in DOMAIN resp2 |-> resp2[j].data])
         ELSE /\ runs' = [runs EXCEPT ![r] =
                            [run EXCEPT !.resp = resp2, !.arrived = arrived2,
                                        !.nOk = @ + 1]]
              /\ UNCHANGED << tags, tagsFrom, tagsOrder, tagsSrc >>
      /\ lastDone' = NoRunDone
      /\ UNCHANGED << offTags, untaggedIdeas, isLoading, isRefreshing, error,
                      modalVars, mounted, nruns, deleting, untaggedFrom,
                      untaggedSrc, okRuns >>

\* A variant of the catch that would find every other per-tag fetch settled.
InFlightButNone(run, i) == 0

\* The per-tag fetches of the run, other than fetch i, that are not settled.
InFlightBut(run, i) ==
  Cardinality({j \in DOMAIN run.resp : j # i /\ run.resp[j].st = "pending"})

\* A variant that renders the tags fetched so far before reporting the error.
PerTagFailPartial(r, i) ==
  LET run == runs[r]
      got == run.arrived
  IN  /\ run.pc = "perTag"
      /\ i \in DOMAIN run.resp
      /\ run.resp[i].st = "pending"
      /\ tags' = [k \in DOMAIN got |-> run.resp[got[k]].node]
      /\ tagsFrom' = r
      /\ tagsOrder' = [k \in DOMAIN got |-> run.resp[got[k]].node.name]
      /\ tagsSrc' = [k \in DOMAIN got |-> run.resp[got[k]].data]
      /\ UNCHANGED untaggedIdeas
      /\ Catch(r, "perTag", InFlightBut(run, i))
      /\ UNCHANGED << offTags, mounted, nruns, deleting, untaggedFrom, untaggedSrc,
                  okRuns >>

\* The first rejection rejects Promise.all: the catch runs at once, while the
\* other per-tag fetches stay in flight.
PerTagFail(r, i) ==
  LET run == runs[r]
  IN  /\ run.pc = "perTag"
      /\ i \in DOMAIN run.resp
      /\ run.resp[i].st = "pending"
      /\ UNCHANGED << tags, untaggedIdeas >>
      /\ Catch(r, "perTag", InFlightBut(run, i))
      /\ UNCHANGED << offTags, mounted, nruns, deleting, histVars >>

\* A per-tag response that arrives after the run was rejected: its result,
\* or its failure, goes nowhere.
StrayPerTag(r, ok) ==
  /\ runs[r].pc = "done"
  /\ runs[r].stray > 0
  /\ runs' = [runs EXCEPT ![r] = [@ EXCEPT !.stray = @ - 1]]
  /\ lastDone' = NoRunDone
  /\ UNCHANGED << offTags, tags, untaggedIdeas, isLoading, isRefreshing, error,
                  modalVars, mounted, nruns, deleting, histVars >>

GetIdeasOk(r, allIdeasData) ==
  /\ runs[r].pc = "getIdeas"
  /\ untaggedIdeas' = Untagged(allIdeasData, runs[r].tagsWithIdeas)
  /\ untaggedFrom' = r
  /\ okRuns' = okRuns + 1
  /\ untaggedSrc' = [ all |-> allIdeasData,
                      taggedIds |-> TaggedAllIds(runs[r].tagsWithIdeas) ]
  /\ UNCHANGED tags
  /\ Finally(r, "none", 0)
  /\ UNCHANGED << offTags, error, mounted, nruns, deleting, tagsFrom, tagsOrder,
                  tagsSrc >>

\* A variant that asks for the ideas again after reporting the failure.
GetIdeasFailRetries(r) ==
  /\ runs[r].pc = "getIdeas"
  /\ error' = LoadFailedMsg
  /\ lastDone' = [ run |-> r, failed |-> "ideas", nOk |-> runs[r].nOk,
                   reqs |-> runs[r].reqs + 1, errs |-> 1, kept |-> TRUE ]
  /\ UNCHANGED << offTags, tags, untaggedIdeas, isLoading, isRefreshing,
                  modalVars, mounted, nruns, runs, deleting, histVars >>

GetIdeasFail(r) ==
  /\ runs[r].pc = "getIdeas"
  /\ UNCHANGED << tags, untaggedIdeas >>
  /\ Catch(r, "ideas", 0)
  /\ UNCHANGED << offTags, mounted, nruns, deleting, histVars >>

\* ------------------------------------------------------------------------
\* TagsIdeasPage: mount effect and user events
\* ------------------------------------------------------------------------

\* useEffect(() => { fetchTagsAndIdeas(); }, [])
Mount ==
  /\ ~mounted
  /\ mounted' = TRUE
  /\ StartFetch("mount")
  /\ lastDone' = NoRunDone
  /\ UNCHANGED << offTags, tags, untaggedIdeas, isRefreshing, modalVars, deleting,
                  histVars >>

\* Refresh button (disabled={isRefreshing}): refreshTagsAndIdeas up to its await
RefreshTagsAndIdeas ==
  /\ mounted
  /\ ~isRefreshing
  /\ Budget
  /\ isRefreshing' = TRUE
  /\ StartFetch("refresh")
  /\ lastDone' = NoRunDone
  /\ UNCHANGED << offTags, tags, untaggedIdeas, modalVars, mounted, deleting,
                  histVars >>

\* Trash button of a rendered node: handleDeleteTag(item.name)
HandleDeleteTag(tagName) ==
  /\ mounted
  /\ ~isLoading
  /\ tagName \in DeletableNames
  /\ tagToDelete' = tagName
  /\ showDeleteModal' = TRUE
  /\ lastDone' = NoRunDone
  /\ UNCHANGED << offTags, tags, untaggedIdeas, isLoading, isRefreshing, error,
                  isDeleting, mounted, nruns, runs, deleting, histVars >>

\* confirmDeleteTag as it would run if it could be reached without the modal
ConfirmDeleteTagWithoutModal ==
  /\ mounted
  /\ Budget
  /\ isDeleting' = TRUE
  /\ error' = Null
  /\ deleting' = Append(deleting, tagToDelete)
  /\ lastDone' = NoRunDone
  /\ UNCHANGED << offTags, tags, untaggedIdeas, isLoading, isRefreshing,
                  showDeleteModal, tagToDelete, mounted, nruns, runs,
                  histVars >>

\* Delete button of the confirmation modal: confirmDeleteTag up to its await
ConfirmDeleteTag ==
  /\ showDeleteModal
  /\ Budget
  /\ isDeleting' = TRUE
  /\ error' = Null
  /\ deleting' = Append(deleting, tagToDelete)
  /\ lastDone' = NoRunDone
  /\ UNCHANGED << offTags, tags, untaggedIdeas, isLoading, isRefreshing,
                  showDeleteModal, tagToDelete, mounted, nruns, runs,
                  histVars >>

RemoveAt(s, k) == [i \in 1..(Len(s) - 1) |-> IF i < k THEN s[i] ELSE s[i + 1]]

\* deleteTag resolved: await fetchTagsAndIdeas()
DeleteTagOk(k) ==
  /\ k \in DOMAIN deleting
  /\ deleting' = RemoveAt(deleting, k)
  /\ StartFetch("delete")
  /\ lastDone' = NoRunDone
  /\ UNCHANGED << offTags, tags, untaggedIdeas, isRefreshing, modalVars, mounted,
                  histVars >>

\* deleteTag rejected, had the modal been closed on that path as well
DeleteTagFailClosesModal(k) ==
  /\ k \in DOMAIN deleting
  /\ deleting' = RemoveAt(deleting, k)
  /\ error' = DeleteFailedMsg
  /\ isDeleting' = FALSE
  /\ showDeleteModal' = FALSE
  /\ tagToDelete' = ""
  /\ lastDone' = NoRunDone
  /\ UNCHANGED << offTags, tags, untaggedIdeas, isLoading, isRefreshing,
                  mounted, nruns, runs, histVars >>

\* deleteTag rejected: catch { setError } finally { setIsDeleting(false) }
DeleteTagFail(k) ==
  /\ k \in DOMAIN deleting
  /\ deleting' = RemoveAt(deleting, k)
  /\ error' = DeleteFailedMsg
  /\ isDeleting' = FALSE
  /\ lastDone' = NoRunDone
  /\ UNCHANGED << offTags, tags, untaggedIdeas, isLoading, isRefreshing,
                  showDeleteModal, tagToDelete, mounted, nruns, runs,
                  histVars >>

\* Cancel / X of the confirmation modal
CloseDeleteModal ==
  /\ showDeleteModal
  /\ showDeleteModal' = FALSE
  /\ tagToDelete' = ""
  /\ lastDone' = NoRunDone
  /\ UNCHANGED << offTags, tags, untaggedIdeas, isLoading, isRefreshing, error,
                  isDeleting, mounted, nruns, runs, deleting, histVars >>

InitTags ==
  /\ tags = << >>
  /\ untaggedIdeas = << >>
  /\ isLoading = TRUE
  /\ isRefreshing = FALSE
  /\ error = Null
  /\ showDeleteModal = FALSE
  /\ tagToDelete = ""
  /\ isDeleting = FALSE
  /\ mounted = FALSE
  /\ nruns = 0
  /\ runs = [r \in 1..MaxRuns |-> IdleRun]
  /\ deleting = << >>
  /\ tagsFrom = 0
  /\ tagsOrder = << >>
  /\ tagsSrc = << >>
  /\ untaggedFrom = 0
  /\ untaggedSrc = [all |-> << >>, taggedIds |-> {}]
  /\ okRuns = 0
  /\ lastDone = NoRunDone

\* The responses that can arrive for run r, ideas drawn from `lists`.
Responses(r, tagLists, lists) ==
  \/ \E td \in tagLists : GetTagsOk(r, td)
  \/ GetTagsFail(r)
  \/ \E i \in 1..Cardinality(TagNames), data \in lists : PerTagOk(r, i, data)
  \/ \E i \in 1..Cardinality(TagNames) : PerTagFail(r, i)
  \/ \E ok \in BOOLEAN : StrayPerTag(r, ok)
  \/ \E data \in lists : GetIdeasOk(r, data)
  \/ GetIdeasFail(r)

\* The aggregator alone: the run started by the mount effect.
NextAgg ==
  \/ Mount
  \/ Responses(1, TagLists, IdeaLists)

\* The page with its user events.
NextTags ==
  \/ Mount
  \/ RefreshTagsAndIdeas
  \/ \E n \in TagNames \cup {Leaf(i).name : i \in IdeaPool} : HandleDeleteTag(n)
  \/ ConfirmDeleteTag
  \/ CloseDeleteModal
  \/ \E k \in 1..MaxRuns : DeleteTagOk(k) \/ DeleteTagFail(k)
  \/ \E r \in 1..MaxRuns : Responses(r, PageTagLists, PageIdeaLists)

\* ------------------------------------------------------------------------
\* Login page, ProtectedRoute and the Navbar's logout
\* ------------------------------------------------------------------------

\* Strings the user can type are sequences of characters.
Rep(c, n) == [i \in 1..n |-> c]

AsciiDigits == {"0", "1", "2", "3", "4", "5", "6", "7", "8", "9"}

\* String.prototype.trim
RECURSIVE TrimLeft(_)
TrimLeft(s) == IF s # << >> /\ Head(s) = " " THEN TrimLeft(Tail(s)) ELSE s

RECURSIVE TrimRight(_)
TrimRight(s) ==
  IF s # << >> /\ s[Len(s)] = " " THEN TrimRight(SubSeq(s, 1, Len(s) - 1))
  ELSE s

Trim(s) == TrimRight(TrimLeft(s))

AllDigits(s) == \A i \in DOMAIN s : s[i] \in AsciiDigits

\* /^\d{0,6}$/.test(value)
UpToSixDigits(value) == Len(value) <= 6 /\ AllDigits(value)

\* /^\d{6}$/.test(otpCode)
SixDigits(code) == Len(code) = 6 /\ AllDigits(code)

\* Values typed into the email field; only EnrolledEmail has a secret.
EnrolledEmail == <<"a">>

UnknownEmail == <<"b">>

EmailInputs == {<< >>, <<" ">>, <<" ", "a", " ">>, EnrolledEmail, UnknownEmail}

\* Clock-skew tolerance of the verifier, in time steps.
Tolerance == 1

\* The six-digit code of the enrolled secret for a time step: a different
\* code for every step in reach, none of them 222222.
CodeAt(step) ==
  Rep(<<"0", "1", "3", "4", "5", "6", "7", "8", "9">>[step + Tolerance + 1], 6)

\* The code the enrolled user's authenticator shows for step 0, when the
\* user reads it.
CurrentCode == CodeAt(0)

\* Values typed (or pasted) into the code field.
OtpInputs ==
  { << >>, Rep("1", 5), CurrentCode, CodeAt(1), Rep("2", 6), Rep("1", 7),
    <<"1", "1", "x", "1", "1", "1">>, <<"1", "1", " ", "1", "1", "1">>,
    <<"1", "1", "arabic-indic-3", "1", "1", "1">> }

EmailMissingMsg == "Please enter your email address"

OtpInvalidMsg == "Please enter a valid 6-digit OTP code"

InvalidCredentialsMsg == "Invalid email or OTP code. Please try again."

AuthFailedMsg ==
  "Authentication failed. Please check your connection and try again."

NoRequest == [sent |-> FALSE]

NoSubmit == [made |-> FALSE]

\* if (!email.trim())
EmailRejected(e) == Trim(e) = << >>

\* A validation that only tests for an empty code.
OtpRejectedIfEmpty(code) == Trim(code) = << >>

\* if (!otpCode.trim() || otpCode.length !== 6 || !/^\d{6}$/.test(otpCode))
OtpRejected(code) ==
  Trim(code) = << >> \/ Len(code) # 6 \/ ~SixDigits(code)

\* The Credential Verifier behind POST /verify-otp: success for the enrolled
\* email with a code of the acceptance window around the current step, one
\* generic failure otherwise.
GenericFailure == [http |-> 200, data |-> [status |-> "error"]]

\* A window that takes the code of any time step.
InWindowAnyStep(code, step) ==
  \E s \in (0 - Tolerance)..(MaxStep + Tolerance) : code = CodeAt(s)

\* The code is the one of the time step, or of a step within the tolerance.
InWindow(code, step) ==
  \E d \in (0 - Tolerance)..Tolerance : code = CodeAt(step + d)

NoVerify == [made |-> FALSE]

\* A verifier that answers 404 for an email it does not know.
VerifyOtpNamesUnknown(credentials) ==
  IF credentials.email # EnrolledEmail
  THEN [http |-> 404, data |-> [status |-> "error"]]
  ELSE IF InWindow(credentials.otp_code, now)
       THEN [http |-> 200, data |-> [status |-> "success"]]
       ELSE GenericFailure

VerifyOtp(credentials) ==
  IF /\ credentials.email = EnrolledEmail
     /\ InWindow(credentials.otp_code, now)
  THEN [http |-> 200, data |-> [status |-> "success"]]
  ELSE GenericFailure

\* Which failed verification a request is.
FailureCase(credentials) ==
  IF credentials.email # EnrolledEmail THEN "unknown_email" ELSE "wrong_code"

\* A test that accepts every answered request.
IsSuccessAnyAnswer(response) == "data" \in DOMAIN response

\* if (response && response.data && response.data.status === 'success')
IsSuccess(response) ==
  "data" \in DOMAIN response /\ response.data.status = "success"

\* A freshly mounted Login component.
FreshLogin ==
  /\ email' = << >>
  /\ otpCode' = << >>
  /\ loginLoading' = FALSE
  /\ loginError' = ""
  /\ success' = FALSE
  /\ loginReq' = NoRequest

\* onChange of the email field
SetEmail(value) ==
  /\ route = "/"
  /\ email' = value
  /\ loginError' = ""
  /\ lastVerify' = NoVerify
  /\ UNCHANGED << offLogin, now, route, isAuthenticated, otpCode,
                  loginLoading, success, loginReq, verified, lastSubmit,
                  outcomes >>

\* handleOtpChange
HandleOtpChange(value) ==
  /\ route = "/"
  /\ IF UpToSixDigits(value)
     THEN otpCode' = value /\ loginError' = ""
     ELSE UNCHANGED << otpCode, loginError >>
  /\ lastVerify' = NoVerify
  /\ UNCHANGED << offLogin, now, route, isAuthenticated, email, loginLoading,
                  success, loginReq, verified, lastSubmit, outcomes >>

\* handleLogin up to its await (the submit button is disabled={isLoading})
HandleLogin ==
  /\ route = "/"
  /\ ~loginLoading
  /\ UNCHANGED isAuthenticated
  /\ IF EmailRejected(email)
     THEN /\ loginError' = EmailMissingMsg
          /\ UNCHANGED << loginLoading, success, loginReq >>
     ELSE IF OtpRejected(otpCode)
     THEN /\ loginError' = OtpInvalidMsg
          /\ UNCHANGED << loginLoading, success, loginReq >>
     ELSE /\ loginLoading' = TRUE
          /\ loginError' = ""
          /\ success' = FALSE
          /\ loginReq' = [ sent |-> TRUE,
                           credentials |-> [ email |-> Trim(email),
                                             otp_code |-> Trim(otpCode) ] ]
  /\ lastSubmit' = [ made |-> TRUE, email |-> email, otpCode |-> otpCode,
                     issued |-> loginReq'.sent, error |-> loginError',
                     flagBefore |-> isAuthenticated,
                     flagAfter |-> isAuthenticated' ]
  /\ lastVerify' = NoVerify
  /\ UNCHANGED << offLogin, now, route, email, otpCode, verified, outcomes >>

\* The verifier's answer arrives: the rest of handleLogin.
VerifyOtpAnswered ==
  /\ loginReq.sent
  /\ LET response == VerifyOtp(loginReq.credentials)
         accepted == response.data.status = "success"
     IN  /\ verified' = (verified \/ accepted)
         /\ IF response.http \notin 200..299
            THEN \* axios rejects: catch (err)
                 /\ loginError' = AuthFailedMsg
                 /\ loginLoading' = FALSE
                 /\ loginReq' = NoRequest
                 /\ UNCHANGED << route, isAuthenticated, email, otpCode,
                                 success >>
            ELSE IF IsSuccess(response)
            THEN \* localStorage.setItem(...); navigate('/dashboard')
                 /\ isAuthenticated' = "true"
                 /\ route' = "/dashboard"
                 /\ FreshLogin
            ELSE /\ loginError' = InvalidCredentialsMsg
                 /\ loginLoading' = FALSE
                 /\ loginReq' = NoRequest
                 /\ UNCHANGED << route, isAuthenticated, email, otpCode,
                                 success >>
         /\ outcomes' =
              IF accepted THEN outcomes
              ELSE outcomes \cup
                     {[ case |-> FailureCase(loginReq.credentials),
                        error |-> loginError',
                        flagSet |-> isAuthenticated' # isAuthenticated,
                        navigated |-> route' # route ]}
         /\ lastVerify' = [ made |-> TRUE,
                            credentials |-> loginReq.credentials,
                            accepted |-> accepted,
                            error |-> loginError' ]
  /\ UNCHANGED << offLogin, now, lastSubmit >>

\* The request fails in transit (no answer): catch (err) ... finally
VerifyOtpUnreachable ==
  /\ loginReq.sent
  /\ loginError' = AuthFailedMsg
  /\ loginLoading' = FALSE
  /\ loginReq' = NoRequest
  /\ lastVerify' = NoVerify
  /\ UNCHANGED << offLogin, now, route, isAuthenticated, email, otpCode,
                  success, verified, lastSubmit, outcomes >>

\* Navbar (rendered while the flag is 'true'): handleLogout clears the
\* storage and reloads the application at '/'.
HandleLogout ==
  /\ isAuthenticated = "true"
  /\ isAuthenticated' = Absent
  /\ route' = "/"
  /\ FreshLogin
  /\ verified' = FALSE
  /\ lastVerify' = NoVerify
  /\ UNCHANGED << offLogin, now, lastSubmit, outcomes >>

\* The user opens '/' (the Login route is not protected).
VisitLogin ==
  /\ route # "/"
  /\ route' = "/"
  /\ FreshLogin
  /\ lastVerify' = NoVerify
  /\ UNCHANGED << offLogin, now, isAuthenticated, verified, lastSubmit,
                  outcomes >>

\* A 30-second time step ends.
Tick ==
  /\ now < MaxStep
  /\ now' = now + 1
  /\ lastVerify' = NoVerify
  /\ UNCHANGED << offLogin, route, isAuthenticated, email, otpCode,
                  loginLoading, loginError, success, loginReq, verified,
                  lastSubmit, outcomes >>

\* Values other than 'true' that localStorage may hold under the key.
OtherFlagValues == {"false"}

\* Something else of the origin stores a value under 'isAuthenticated' while
\* nobody is logged in.
ForeignFlag(value) ==
  /\ isAuthenticated = Absent
  /\ isAuthenticated' = value
  /\ lastVerify' = NoVerify
  /\ UNCHANGED << offLogin, now, route, email, otpCode, loginLoading,
                  loginError, success, loginReq, verified, lastSubmit,
                  outcomes >>

\* A guard that lets every stored value pass.
ProtectedRouteIfPresent(path) == IF isAuthenticated # Absent THEN path ELSE "/"

\* ProtectedRoute: auth === 'true' ? children : <Navigate to="/" />
ProtectedRoute(path) == IF isAuthenticated = "true" THEN path ELSE "/"

\* The user opens a protected path.
VisitProtected(path) ==
  /\ route' = ProtectedRoute(path)
  /\ FreshLogin
  /\ lastVerify' = NoVerify
  /\ UNCHANGED << offLogin, now, isAuthenticated, verified, lastSubmit,
                  outcomes >>

InitLogin ==
  /\ route = "/"
  /\ isAuthenticated = Absent
  /\ email = << >>
  /\ otpCode = << >>
  /\ loginLoading = FALSE
  /\ loginError = ""
  /\ success = FALSE
  /\ loginReq = NoRequest
  /\ verified = FALSE
  /\ lastSubmit = NoSubmit
  /\ outcomes = {}
  /\ now = 0
  /\ lastVerify = NoVerify

NextLogin ==
  \/ \E value \in EmailInputs : SetEmail(value)
  \/ \E value \in OtpInputs : HandleOtpChange(value)
  \/ HandleLogin
  \/ VerifyOtpAnswered
  \/ VerifyOtpUnreachable
  \/ Tick
  \/ \E value \in OtherFlagValues : ForeignFlag(value)
  \/ HandleLogout
  \/ VisitLogin
  \/ \E path \in {"/dashboard", "/table-of-contents"} : VisitProtected(path)

\* ------------------------------------------------------------------------
\* Dashboard and IdeaModal: data and pure parts
\* ------------------------------------------------------------------------

\* Idea records as GET /ideas returns them to the Dashboard.  Text fields
\* are sequences of characters; a missing field and the empty string are
\* the same to this code (`x || ''`, `x ? ... : ""`), so both are << >>.
DashPool ==
  { [id |-> 1, title |-> <<"T">>, content |-> <<"c">>,
     tags |-> <<"a", ";", "b">>],
    [id |-> 2, title |-> <<"U">>, content |-> << >>, tags |-> << >>] }

\* The id the store gives to a created idea.
NewId == 3

\* useState(null) of editingIdea
NoIdea == [id |-> -1]

\* useState({ title: '', content: '' })
EmptyForm == [title |-> << >>, content |-> << >>]

SaveFailedAlert == "Error 422: ..."

NoFailure == [request |-> "none", shown |-> FALSE]

NoneStored == [made |-> FALSE]

NoneOpened == [made |-> FALSE]

NeverOpened == [how |-> "none", idea |-> NoIdea]

\* Values typed into the modal's fields and into the search box.
TitleInputs == {<< >>, <<"T">>}

ContentInputs == {<< >>, <<"c">>}

TagInputs == {<<" ">>, <<" ", "b", " ">>, <<"a", ";", "b">>}

SearchInputs == {<< >>, <<" ">>, <<"t">>}

\* tags.join(';')
RECURSIVE Join(_)
Join(list) ==
  IF list = << >> THEN << >>
  ELSE IF Len(list) = 1 THEN list[1]
  ELSE list[1] \o <<";">> \o Join(Tail(list))

\* text.split(';'): the pieces between the delimiters ("" gives [""])
RECURSIVE Split(_)
Split(text) ==
  IF \E i \in DOMAIN text : text[i] = ";"
  THEN LET i == CHOOSE j \in DOMAIN text :
                  text[j] = ";" /\ \A h \in 1..(j - 1) : text[h] # ";"
       IN  << SubSeq(text, 1, i - 1) >> \o Split(SubSeq(text, i + 1, Len(text)))
  ELSE << text >>

\* IdeaModal.handleSubmit: tags.length > 0 ? tags.join(';') : ""
SerializeTags(list) == IF Len(list) > 0 THEN Join(list) ELSE << >>

\* IdeaModal useEffect: initialData.tags.split(';').filter(t => t.trim() !== '')
\* when the field is a non-empty string, [] otherwise
ParseTags(text) ==
  LET NotBlank(t) == Trim(t) # << >>
  IN  IF text # << >> THEN SelectSeq(Split(text), NotBlank) ELSE << >>

\* String.prototype.toLowerCase on the characters in use
ToLowerChar(c) == IF c = "T" THEN "t" ELSE IF c = "U" THEN "u" ELSE c

ToLower(s) == [i \in DOMAIN s |-> ToLowerChar(s[i])]

\* String.prototype.includes
Includes(s, sub) ==
  \E i \in 0..(Len(s) - Len(sub)) : SubSeq(s, i + 1, i + Len(sub)) = sub

\* The filter of getFilteredIdeas
Matches(idea, term) ==
  LET search == ToLower(term)
  IN  \/ Includes(ToLower(idea.title), search)
      \/ Includes(ToLower(idea.content), search)
      \/ Includes(ToLower(idea.tags), search)

\* The `required` attribute of the title input and of the content textarea:
\* the browser does not fire the form's submit event while one is empty.
RequiredMissingTitleOnly(fd) ==
  IF fd.title = << >> THEN "title" ELSE "none"

RequiredMissing(fd) ==
  IF fd.title = << >> THEN "title"
  ELSE IF fd.content = << >> THEN "content" ELSE "none"

\* ------------------------------------------------------------------------
\* Dashboard
\* ------------------------------------------------------------------------

searchVars ==
  << searchTerm, similarIdeas, isSearchingSimilar, showSimilarResults,
     typedSince >>

formVars == << formData, currentTag, modalTags, isSaving, formInvalid >>

\* getFilteredIdeas: what the grid shows
FilteredIdeas ==
  LET Shown(idea) == Matches(idea, searchTerm)
  IN  IF showSimilarResults THEN similarIdeas ELSE SelectSeq(ideas, Shown)

\* What the store holds: the pool, and the idea of the last successful save.
ServerIdeas ==
  IF stored.made
  THEN {i \in DashPool : i.id # stored.idea.id} \cup {stored.idea}
  ELSE DashPool

\* GET /ideas answers with the store's ideas in id order, or with none.
RECURSIVE InIdOrder(_)
InIdOrder(S) ==
  IF S = {} THEN << >>
  ELSE LET first == CHOOSE i \in S : \A j \in S : i.id <= j.id
       IN  << first >> \o InIdOrder(S \ {first})

IdeaAnswers == {<< >>, InIdOrder(ServerIdeas)}

\* GET /ideas/similar answers with at most the one idea close to the term.
SimilarAnswers == {<< >>} \cup {<< i >> : i \in {j \in DashPool : j.id = 1}}

\* IdeaModal's useEffect on [initialData, isOpen]; `run` says whether one of
\* the two has changed in this step.
ModalEffect(run, initialData) ==
  IF ~run THEN UNCHANGED << formData, modalTags, opened >>
  ELSE IF initialData # NoIdea
  THEN /\ formData' = [ title |-> initialData.title,
                        content |-> initialData.content ]
       /\ modalTags' = ParseTags(initialData.tags)
       /\ opened' = [ made |-> TRUE, text |-> initialData.tags,
                      result |-> ParseTags(initialData.tags) ]
  ELSE /\ formData' = EmptyForm
       /\ modalTags' = << >>
       /\ UNCHANGED opened

\* fetchIdeas up to its await: setIsLoading(true); await getIdeas()
FetchIdeas ==
  /\ dashLoading' = TRUE
  /\ dashPending' = Append(dashPending, [kind |-> "getIdeas"])

\* useEffect(() => { fetchIdeas(); }, [])
DashMount ==
  /\ ~dashMounted
  /\ dashMounted' = TRUE
  /\ dashIssued' = dashIssued + 1
  /\ FetchIdeas
  /\ UNCHANGED << offDash, ideas, isModalOpen, editingIdea, alerts,
                  dashFailure, searchVars, formVars, stored, lastOpen, opened >>

\* getIdeas resolved: setIdeas(response.data); finally setIsLoading(false)
GetIdeasAnswered(k, data) ==
  /\ k \in DOMAIN dashPending
  /\ dashPending[k].kind = "getIdeas"
  /\ ideas' = data
  /\ dashLoading' = FALSE
  /\ dashPending' = RemoveAt(dashPending, k)
  /\ UNCHANGED << offDash, isModalOpen, editingIdea, dashMounted, dashIssued,
                  alerts, dashFailure, searchVars, formVars, stored, lastOpen, opened >>

\* getIdeas rejected: catch { console.error(...) } finally setIsLoading(false)
GetIdeasFailed(k) ==
  /\ k \in DOMAIN dashPending
  /\ dashPending[k].kind = "getIdeas"
  /\ dashLoading' = FALSE
  /\ dashPending' = RemoveAt(dashPending, k)
  /\ alerts' = alerts
  /\ dashFailure' = [request |-> "getIdeas", shown |-> alerts' # alerts]
  /\ UNCHANGED << offDash, ideas, isModalOpen, editingIdea, dashMounted,
                  dashIssued, searchVars, formVars, stored, lastOpen, opened >>

\* onChange of the search box
SetSearchTerm(value) ==
  /\ dashMounted
  /\ value # searchTerm
  /\ searchTerm' = value
  /\ showSimilarResults' = FALSE
  /\ typedSince' = TRUE
  /\ UNCHANGED << offDash, ideas, dashLoading, isModalOpen, editingIdea,
                  dashMounted, dashPending, dashIssued, alerts, dashFailure,
                  similarIdeas, isSearchingSimilar, formVars, stored, lastOpen, opened >>

\* Similar button (disabled={!searchTerm.trim() || isSearchingSimilar}):
\* fetchSimilarIdeas(searchTerm) up to its await
FetchSimilarIdeas ==
  /\ dashMounted
  /\ Trim(searchTerm) # << >>
  /\ ~isSearchingSimilar
  /\ dashIssued < MaxRequests
  /\ dashIssued' = dashIssued + 1
  /\ isSearchingSimilar' = TRUE
  /\ typedSince' = FALSE
  /\ dashPending' =
       Append(dashPending, [kind |-> "getSimilarIdeas", term |-> searchTerm])
  /\ UNCHANGED << offDash, ideas, dashLoading, isModalOpen, editingIdea,
                  dashMounted, alerts, dashFailure, searchTerm, similarIdeas,
                  showSimilarResults, formVars, stored, lastOpen, opened >>

\* getSimilarIdeas resolved
SimilarAnswered(k, data) ==
  /\ k \in DOMAIN dashPending
  /\ dashPending[k].kind = "getSimilarIdeas"
  /\ similarIdeas' = data
  /\ showSimilarResults' = TRUE
  /\ isSearchingSimilar' = FALSE
  /\ dashPending' = RemoveAt(dashPending, k)
  /\ UNCHANGED << offDash, ideas, dashLoading, isModalOpen, editingIdea,
                  dashMounted, dashIssued, alerts, dashFailure, searchTerm,
                  typedSince, formVars, stored, lastOpen, opened >>

\* getSimilarIdeas rejected: catch { setSimilarIdeas([]);
\* setShowSimilarResults(true) } finally
SimilarFailed(k) ==
  /\ k \in DOMAIN dashPending
  /\ dashPending[k].kind = "getSimilarIdeas"
  /\ similarIdeas' = << >>
  /\ showSimilarResults' = TRUE
  /\ isSearchingSimilar' = FALSE
  /\ dashPending' = RemoveAt(dashPending, k)
  /\ UNCHANGED << offDash, ideas, dashLoading, isModalOpen, editingIdea,
                  dashMounted, dashIssued, alerts, dashFailure, searchTerm,
                  typedSince, formVars, stored, lastOpen, opened >>

\* The New button without its setEditingIdea(null)
NewIdeaKeepsEditing ==
  /\ dashMounted
  /\ ~isModalOpen
  /\ editingIdea' = editingIdea
  /\ isModalOpen' = TRUE
  /\ ModalEffect(~isModalOpen, editingIdea)
  /\ formInvalid' = "none"
  /\ lastOpen' = [how |-> "New", idea |-> NoIdea]
  /\ UNCHANGED << offDash, ideas, dashLoading, dashMounted, dashPending,
                  dashIssued, alerts, dashFailure, searchVars, currentTag,
                  isSaving, stored >>

\* New Idea button (the open modal's overlay covers the page):
\* setEditingIdea(null); setIsModalOpen(true)
NewIdea ==
  /\ dashMounted
  /\ ~isModalOpen
  /\ editingIdea' = NoIdea
  /\ isModalOpen' = TRUE
  /\ ModalEffect(~isModalOpen \/ editingIdea # NoIdea, NoIdea)
  /\ formInvalid' = "none"
  /\ lastOpen' = [how |-> "New", idea |-> NoIdea]
  /\ UNCHANGED << offDash, ideas, dashLoading, dashMounted, dashPending,
                  dashIssued, alerts, dashFailure, searchVars, currentTag,
                  isSaving, stored >>

\* Edit button of a card of the grid (rendered when not loading):
\* setEditingIdea(idea); setIsModalOpen(true)
EditIdea(idea) ==
  /\ dashMounted
  /\ ~dashLoading
  /\ ~isModalOpen
  /\ idea \in Range(FilteredIdeas)
  /\ editingIdea' = idea
  /\ isModalOpen' = TRUE
  /\ ModalEffect(~isModalOpen \/ editingIdea # idea, idea)
  /\ formInvalid' = "none"
  /\ lastOpen' = [how |-> "Edit", idea |-> idea]
  /\ UNCHANGED << offDash, ideas, dashLoading, dashMounted, dashPending,
                  dashIssued, alerts, dashFailure, searchVars, currentTag,
                  isSaving, stored >>

\* IdeaModal onClose (X and Cancel)
CloseIdeaModal ==
  /\ isModalOpen
  /\ isModalOpen' = FALSE
  /\ ModalEffect(TRUE, editingIdea)
  /\ formInvalid' = "none"
  /\ UNCHANGED << offDash, ideas, dashLoading, editingIdea, dashMounted,
                  dashPending, dashIssued, alerts, dashFailure, searchVars,
                  currentTag, isSaving, stored, lastOpen >>

\* ------------------------------------------------------------------------
\* IdeaModal (rendered by the Dashboard while isModalOpen)
\* ------------------------------------------------------------------------

\* onChange of the title input
SetTitle(value) ==
  /\ isModalOpen
  /\ value # formData.title
  /\ formData' = [formData EXCEPT !.title = value]
  /\ formInvalid' = "none"
  /\ UNCHANGED << offDash, ideas, dashLoading, isModalOpen, editingIdea,
                  dashMounted, dashPending, dashIssued, alerts, dashFailure,
                  searchVars, currentTag, modalTags, isSaving, stored, lastOpen,
                  opened >>

\* onChange of the content textarea
SetContent(value) ==
  /\ isModalOpen
  /\ value # formData.content
  /\ formData' = [formData EXCEPT !.content = value]
  /\ formInvalid' = "none"
  /\ UNCHANGED << offDash, ideas, dashLoading, isModalOpen, editingIdea,
                  dashMounted, dashPending, dashIssued, alerts, dashFailure,
                  searchVars, currentTag, modalTags, isSaving, stored, lastOpen,
                  opened >>

\* onChange of the tag input
SetCurrentTag(value) ==
  /\ isModalOpen
  /\ value # currentTag
  /\ currentTag' = value
  /\ formInvalid' = "none"
  /\ UNCHANGED << offDash, ideas, dashLoading, isModalOpen, editingIdea,
                  dashMounted, dashPending, dashIssued, alerts, dashFailure,
                  searchVars, formData, modalTags, isSaving, stored, lastOpen, opened >>

\* addTag: Enter in the tag input while it holds a non-blank text (the list
\* is kept to MaxListLen tags)
AddTag ==
  /\ isModalOpen
  /\ Trim(currentTag) # << >>
  /\ Len(modalTags) < MaxListLen
  /\ modalTags' = IF Trim(currentTag) \in Range(modalTags) THEN modalTags
                  ELSE Append(modalTags, Trim(currentTag))
  /\ currentTag' = << >>
  /\ formInvalid' = "none"
  /\ UNCHANGED << offDash, ideas, dashLoading, isModalOpen, editingIdea,
                  dashMounted, dashPending, dashIssued, alerts, dashFailure,
                  searchVars, formData, isSaving, stored, lastOpen, opened >>

\* removeTag(indexToRemove): the X of a tag chip
RemoveTag(indexToRemove) ==
  /\ isModalOpen
  /\ indexToRemove \in DOMAIN modalTags
  /\ modalTags' = RemoveAt(modalTags, indexToRemove)
  /\ formInvalid' = "none"
  /\ UNCHANGED << offDash, ideas, dashLoading, isModalOpen, editingIdea,
                  dashMounted, dashPending, dashIssued, alerts, dashFailure,
                  searchVars, formData, currentTag, isSaving, stored, lastOpen, opened >>

\* handleSaveIdea up to its await: updateIdea(editingIdea.id, formData) when
\* an idea is being edited, createIdea(formData) otherwise.  `tagList` is the
\* modal's tag list the body was built from (history).
HandleSaveIdea(dataToSave, tagList) ==
  /\ dashIssued + 2 <= MaxRequests
  /\ dashIssued' = dashIssued + 2
  /\ dashPending' =
       Append(dashPending,
              [ kind |-> IF editingIdea # NoIdea THEN "updateIdea"
                         ELSE "createIdea",
                id |-> IF editingIdea # NoIdea THEN editingIdea.id ELSE NewId,
                body |-> dataToSave,
                tagList |-> tagList ])

\* The form is submitted (Save/Update button, disabled={isSaving}, or Enter
\* in a field).  The browser checks the required fields first; then
\* handleSubmit: setIsSaving(true); onSave(dataToSave)
SubmitForm ==
  /\ isModalOpen
  /\ ~isSaving
  /\ IF RequiredMissing(formData) # "none"
     THEN /\ formInvalid' = RequiredMissing(formData)
          /\ UNCHANGED << isSaving, dashIssued, dashPending >>
     ELSE /\ formInvalid' = "none"
          /\ isSaving' = TRUE
          /\ HandleSaveIdea([ title |-> formData.title,
                              content |-> formData.content,
                              tags |-> SerializeTags(modalTags) ], modalTags)
  /\ UNCHANGED << offDash, ideas, dashLoading, isModalOpen, editingIdea,
                  dashMounted, alerts, dashFailure, searchVars, formData,
                  currentTag, modalTags, stored, lastOpen, opened >>

\* The save resolved: fetchIdeas(); setIsModalOpen(false); setEditingIdea(null)
SaveAnswered(k) ==
  /\ k \in DOMAIN dashPending
  /\ dashPending[k].kind \in {"updateIdea", "createIdea"}
  /\ dashLoading' = TRUE
  /\ dashPending' = Append(RemoveAt(dashPending, k), [kind |-> "getIdeas"])
  /\ isModalOpen' = FALSE
  /\ editingIdea' = NoIdea
  /\ ModalEffect(isModalOpen \/ editingIdea # NoIdea, NoIdea)
  /\ formInvalid' = "none"
  /\ stored' = [ made |-> TRUE,
                 idea |-> [ id |-> dashPending[k].id,
                            title |-> dashPending[k].body.title,
                            content |-> dashPending[k].body.content,
                            tags |-> dashPending[k].body.tags ],
                 list |-> dashPending[k].tagList ]
  /\ UNCHANGED << offDash, ideas, dashMounted, dashIssued, alerts,
                  dashFailure, searchVars, currentTag, isSaving, lastOpen >>

\* The save rejected: catch { console.error(...); alert(`Error 422: ...`) }
SaveFailed(k) ==
  /\ k \in DOMAIN dashPending
  /\ dashPending[k].kind \in {"updateIdea", "createIdea"}
  /\ dashPending' = RemoveAt(dashPending, k)
  /\ alerts' = alerts + 1
  /\ dashFailure' = [request |-> "saveIdea", shown |-> alerts' # alerts]
  /\ UNCHANGED << offDash, ideas, dashLoading, isModalOpen, editingIdea,
                  dashMounted, dashIssued, searchVars, formVars, stored, lastOpen,
                  opened >>

\* handleDelete(id), the window.confirm accepted: await deleteIdea(id, ...)
HandleDelete(id) ==
  /\ dashMounted
  /\ ~dashLoading
  /\ id \in {i.id : i \in Range(FilteredIdeas)}
  /\ dashIssued + 2 <= MaxRequests
  /\ dashIssued' = dashIssued + 2
  /\ dashPending' = Append(dashPending, [kind |-> "deleteIdea", id |-> id])
  /\ UNCHANGED << offDash, ideas, dashLoading, isModalOpen, editingIdea,
                  dashMounted, alerts, dashFailure, searchVars, formVars,
                  stored, lastOpen, opened >>

\* deleteIdea resolved: fetchIdeas()
DeleteAnswered(k) ==
  /\ k \in DOMAIN dashPending
  /\ dashPending[k].kind = "deleteIdea"
  /\ dashLoading' = TRUE
  /\ dashPending' = Append(RemoveAt(dashPending, k), [kind |-> "getIdeas"])
  /\ UNCHANGED << offDash, ideas, isModalOpen, editingIdea, dashMounted,
                  dashIssued, alerts, dashFailure, searchVars, formVars,
                  stored, lastOpen, opened >>

\* deleteIdea rejected: catch { console.error(...) }
DeleteFailed(k) ==
  /\ k \in DOMAIN dashPending
  /\ dashPending[k].kind = "deleteIdea"
  /\ dashPending' = RemoveAt(dashPending, k)
  /\ alerts' = alerts
  /\ dashFailure' = [request |-> "deleteIdea", shown |-> alerts' # alerts]
  /\ UNCHANGED << offDash, ideas, dashLoading, isModalOpen, editingIdea,
                  dashMounted, dashIssued, searchVars, formVars, stored, lastOpen,
                  opened >>

InitDash ==
  /\ ideas = << >>
  /\ dashLoading = TRUE
  /\ isModalOpen = FALSE
  /\ editingIdea = NoIdea
  /\ dashMounted = FALSE
  /\ dashPending = << >>
  /\ dashIssued = 0
  /\ alerts = 0
  /\ dashFailure = NoFailure
  /\ searchTerm = << >>
  /\ similarIdeas = << >>
  /\ isSearchingSimilar = FALSE
  /\ showSimilarResults = FALSE
  /\ typedSince = FALSE
  /\ formData = EmptyForm
  /\ currentTag = << >>
  /\ modalTags = << >>
  /\ isSaving = FALSE
  /\ formInvalid = "none"
  /\ stored = NoneStored
  /\ opened = NoneOpened
  /\ lastOpen = NeverOpened

\* The answers to the Dashboard's list-ideas and save requests.
SaveResponses(k) ==
  \/ \E data \in IdeaAnswers : GetIdeasAnswered(k, data)
  \/ GetIdeasFailed(k)
  \/ SaveAnswered(k)
  \/ SaveFailed(k)

\* The user's events in the modal's form, with the texts typed drawn from
\* the sets.
FormEvents(titles, contents) ==
  \/ \E value \in titles : SetTitle(value)
  \/ \E value \in contents : SetContent(value)
  \/ SubmitForm

\* The user's events in the modal's tag editor.
TagEvents ==
  \/ \E value \in TagInputs : SetCurrentTag(value)
  \/ AddTag
  \/ \E i \in 1..MaxListLen : RemoveTag(i)

\* The modal with the part of the Dashboard that opens it and saves for it.
NextModal ==
  \/ DashMount
  \/ NewIdea
  \/ \E idea \in ServerIdeas : EditIdea(idea)
  \/ CloseIdeaModal
  \/ FormEvents(TitleInputs, ContentInputs)
  \/ TagEvents
  \/ \E k \in 1..MaxRequests : SaveResponses(k)

\* The Dashboard, with one text per field typed into the modal and the tags
\* of the edited idea left as they are.
NextDash ==
  \/ DashMount
  \/ NewIdea
  \/ \E idea \in ServerIdeas : EditIdea(idea)
  \/ CloseIdeaModal
  \/ FormEvents({<<"T">>}, {<<"c">>})
  \/ \E id \in {i.id : i \in ServerIdeas} : HandleDelete(id)
  \/ \E value \in SearchInputs : SetSearchTerm(value)
  \/ FetchSimilarIdeas
  \/ \E k \in 1..MaxRequests :
       \/ SaveResponses(k)
       \/ DeleteAnswered(k)
       \/ DeleteFailed(k)
       \/ \E data \in SimilarAnswers : SimilarAnswered(k, data)
       \/ SimilarFailed(k)

\* ------------------------------------------------------------------------
\* TableOfContents page
\* ------------------------------------------------------------------------

TocLoadFailedMsg == "Failed to load table of contents. Please try again."

TocRefreshFailedMsg == "Failed to refresh table of contents. Please try again."

EmptyContent == [title |-> "", text |-> ""]

\* Structures the server may answer GET /toc/structure with: no section, an
\* idea at the top level, a heading with one idea under it.
TocIdea == [type |-> "idea", title |-> "I", text |-> "x", children |-> << >>]

TocHeading ==
  [type |-> "heading", title |-> "H", text |-> "", children |-> << TocIdea >>]

TocAnswers == {<< >>, << TocIdea >>, << TocHeading >>, << TocHeading, TocIdea >>}

\* The idea rows TocItem renders (sections start expanded): each calls
\* onShowFullContent(item.title, item.text) when clicked.
IdeaRows ==
  {i \in Range(tocStructure) : i.type # "heading"}
  \cup UNION {Range(h.children) : h \in {i \in Range(tocStructure) :
                                            i.type = "heading"}}

TocRequest(kind, origin) == [kind |-> kind, origin |-> origin]

\* useEffect(() => { fetchTocStructure(); }, []): fetchTocStructure up to
\* its await
TocMount ==
  /\ ~tocMounted
  /\ tocMounted' = TRUE
  /\ tocLoading' = TRUE
  /\ tocError' = Null
  /\ tocPending' = Append(tocPending, TocRequest("getTocStructure", "mount"))
  /\ UNCHANGED << offToc, tocStructure, showModal, modalContent,
                  tocRefreshing, tocIssued >>

\* Refresh button (disabled={isRefreshing}): refreshTocStructure up to its
\* first await, updateTocStructure()
RefreshTocStructure ==
  /\ tocMounted
  /\ ~tocRefreshing
  /\ ~showModal
  /\ tocIssued + 2 <= MaxRequests
  /\ tocIssued' = tocIssued + 2
  /\ tocRefreshing' = TRUE
  /\ tocError' = Null
  /\ tocPending' =
       Append(tocPending, TocRequest("updateTocStructure", "refresh"))
  /\ UNCHANGED << offToc, tocStructure, tocLoading, showModal, modalContent,
                  tocMounted >>

\* updateTocStructure resolved: const response = await getTocStructure()
UpdateTocAnswered(k) ==
  /\ k \in DOMAIN tocPending
  /\ tocPending[k].kind = "updateTocStructure"
  /\ tocPending' = Append(RemoveAt(tocPending, k),
                          TocRequest("getTocStructure", "refresh"))
  /\ UNCHANGED << offToc, tocStructure, tocLoading, showModal, modalContent,
                  tocRefreshing, tocError, tocMounted, tocIssued >>

\* updateTocStructure rejected, had the fetch been issued all the same
UpdateTocFailedStillFetches(k) ==
  /\ k \in DOMAIN tocPending
  /\ tocPending[k].kind = "updateTocStructure"
  /\ tocPending' = Append(RemoveAt(tocPending, k),
                          TocRequest("getTocStructure", "refresh"))
  /\ tocError' = TocRefreshFailedMsg
  /\ UNCHANGED << offToc, tocStructure, tocLoading, showModal, modalContent,
                  tocRefreshing, tocMounted, tocIssued >>

\* updateTocStructure rejected: catch { setError } finally
\* { setIsRefreshing(false) }
UpdateTocFailed(k) ==
  /\ k \in DOMAIN tocPending
  /\ tocPending[k].kind = "updateTocStructure"
  /\ tocPending' = RemoveAt(tocPending, k)
  /\ tocError' = TocRefreshFailedMsg
  /\ tocRefreshing' = FALSE
  /\ UNCHANGED << offToc, tocStructure, tocLoading, showModal, modalContent,
                  tocMounted, tocIssued >>

\* getTocStructure resolved: setTocStructure(response.data), then the
\* finally of the function that awaited it
GetTocAnswered(k, data) ==
  /\ k \in DOMAIN tocPending
  /\ tocPending[k].kind = "getTocStructure"
  /\ tocPending' = RemoveAt(tocPending, k)
  /\ tocStructure' = data
  /\ IF tocPending[k].origin = "mount"
     THEN tocLoading' = FALSE /\ UNCHANGED tocRefreshing
     ELSE tocRefreshing' = FALSE /\ UNCHANGED tocLoading
  /\ UNCHANGED << offToc, showModal, modalContent, tocError, tocMounted,
                  tocIssued >>

\* getTocStructure rejected: the catch and the finally of the function that
\* awaited it
GetTocFailed(k) ==
  /\ k \in DOMAIN tocPending
  /\ tocPending[k].kind = "getTocStructure"
  /\ tocPending' = RemoveAt(tocPending, k)
  /\ IF tocPending[k].origin = "mount"
     THEN /\ tocError' = TocLoadFailedMsg
          /\ tocLoading' = FALSE
          /\ UNCHANGED tocRefreshing
     ELSE /\ tocError' = TocRefreshFailedMsg
          /\ tocRefreshing' = FALSE
          /\ UNCHANGED tocLoading
  /\ UNCHANGED << offToc, tocStructure, showModal, modalContent, tocMounted,
                  tocIssued >>

\* A click on an idea row (rendered when not loading; the open modal's
\* overlay covers the page): handleShowFullContent(item.title, item.text)
HandleShowFullContent(item) ==
  /\ tocMounted
  /\ ~tocLoading
  /\ ~showModal
  /\ item \in IdeaRows
  /\ modalContent' = [title |-> item.title, text |-> item.text]
  /\ showModal' = TRUE
  /\ UNCHANGED << offToc, tocStructure, tocLoading, tocRefreshing, tocError,
                  tocMounted, tocPending, tocIssued >>

\* X and Close of FullContentModal: handleCloseModal
HandleCloseModal ==
  /\ showModal
  /\ showModal' = FALSE
  /\ modalContent' = EmptyContent
  /\ UNCHANGED << offToc, tocStructure, tocLoading, tocRefreshing, tocError,
                  tocMounted, tocPending, tocIssued >>

InitToc ==
  /\ tocStructure = << >>
  /\ tocLoading = TRUE
  /\ showModal = FALSE
  /\ modalContent = EmptyContent
  /\ tocRefreshing = FALSE
  /\ tocError = Null
  /\ tocMounted = FALSE
  /\ tocPending = << >>
  /\ tocIssued = 0

NextToc ==
  \/ TocMount
  \/ RefreshTocStructure
  \/ HandleShowFullContent(TocIdea)
  \/ HandleCloseModal
  \/ \E k \in 1..MaxRequests :
       \/ UpdateTocAnswered(k)
       \/ UpdateTocFailed(k)
       \/ \E data \in TocAnswers : GetTocAnswered(k, data)
       \/ GetTocFailed(k)

Init == InitTags /\ InitLogin /\ InitDash /\ InitToc

SpecAgg == Init /\ [][NextAgg]_vars

SpecTags == Init /\ [][NextTags]_vars

SpecLogin == Init /\ [][NextLogin]_vars

SpecModal == Init /\ [][NextModal]_vars

SpecDash == Init /\ [][NextDash]_vars

SpecToc == Init /\ [][NextToc]_vars

\* ------------------------------------------------------------------------
\* Properties of the Tag/Idea Aggregator (SpecAgg, SpecTags)
\* ------------------------------------------------------------------------

IdsOf(s) == {s[i].id : i \in DOMAIN s}

NoIdTwice(s) == \A i, j \in DOMAIN s : i # j => s[i].id # s[j].id

\* No fetchTagsAndIdeas run is suspended at one of its awaits.
NoRunInFlight == \A r \in 1..MaxRuns : runs[r].pc \in {"idle", "done"}

\* C1: after a successful run the unassigned bucket holds exactly the ideas
\* of the list-all-ideas response whose id occurs in no tag's idea list of
\* that run: none missing, none extra, no id twice.
C1_UntaggedIsExactDifference ==
  untaggedFrom # 0 =>
    /\ IdsOf(untaggedIdeas) = IdsOf(untaggedSrc.all) \ untaggedSrc.taggedIds
    /\ NoIdTwice(untaggedIdeas)

\* C2: the top-level sequence of the hierarchy that a run sets is the tags
\* of its list-tags response in the order of that response, whatever the
\* order in which the per-tag fetches completed.
C2_TagOrderPreserved ==
  tagsFrom # 0 => [i \in DOMAIN tags |-> tags[i].name] = tagsOrder

\* The hierarchy [Alpha, Beta] is displayed by a run whose fetch for Beta
\* completed before its fetch for Alpha.
C2_ReverseArrivalWitness ==
  /\ tagsFrom = 1
  /\ runs[1].pc = "getIdeas"
  /\ runs[1].arrived = << 2, 1 >>
  /\ tagsOrder = << "Alpha", "Beta" >>
  /\ Len(tags) = 2

C4_ListTagsFailureFailsRun ==
  lastDone.failed = "tags" =>
    /\ lastDone.reqs = 1
    /\ lastDone.errs = 1
    /\ lastDone.kept
    /\ tagsFrom # lastDone.run
    /\ untaggedFrom # lastDone.run

\* The list-tags request of a refresh failed while the hierarchy of the
\* mount run was displayed.
C4_FailedRefreshWitness ==
  /\ lastDone.failed = "tags"
  /\ lastDone.run = 2
  /\ tagsFrom = 1
  /\ untaggedFrom = 1
  /\ Len(tags) > 0
  /\ error = LoadFailedMsg

\* C5: once the runs have finished, the displayed hierarchy and the
\* displayed unassigned bucket come from the same run.
C5_TagsAndUntaggedFromSameRun ==
  (NoRunInFlight /\ tagsFrom # 0 /\ untaggedFrom # 0) => tagsFrom = untaggedFrom

\* C6: once all the runs have finished, each without a failure, the
\* displayed hierarchy and unassigned bucket are those of the run that was
\* started last.
C6_NewestRunWins ==
  (nruns >= 1 /\ NoRunInFlight /\ okRuns = nruns)
    => (tagsFrom = nruns /\ untaggedFrom = nruns)

\* ------------------------------------------------------------------------
\* Properties of the Login page (SpecLogin)
\* ------------------------------------------------------------------------

C9_FailuresIndistinguishable ==
  \A a, b \in outcomes :
    (a.case = "unknown_email" /\ b.case = "wrong_code") =>
      /\ a.error = b.error
      /\ a.error = InvalidCredentialsMsg
      /\ ~a.flagSet /\ ~b.flagSet
      /\ ~a.navigated /\ ~b.navigated

\* Both kinds of failed verification have been answered.
C9_BothFailuresWitness ==
  /\ \E a \in outcomes : a.case = "unknown_email"
  /\ \E b \in outcomes : b.case = "wrong_code"

\* ------------------------------------------------------------------------
\* Properties of the error handling (SpecDash)
\* ------------------------------------------------------------------------

\* C10: after a failed request the user interface holds an error indication
\* for it: the aggregator's run has set its error message, and the
\* Dashboard has shown something for its list-ideas, save-idea or
\* delete-idea call.
C10_EveryFailureShown ==
  /\ lastDone.failed # "none" => lastDone.errs >= 1
  /\ dashFailure.request # "none" => dashFailure.shown

\* ------------------------------------------------------------------------
\* No automatic retry (SpecTags)
\* ------------------------------------------------------------------------

\* Requests of one fetchTagsAndIdeas run that have not been answered.
RunInFlight(run) ==
  CASE run.pc = "getTags" -> 1
    [] run.pc = "perTag" ->
         Cardinality({i \in DOMAIN run.resp : run.resp[i].st = "pending"})
    [] run.pc = "getIdeas" -> 1
    [] run.pc = "done" -> run.stray
    [] OTHER -> 0

RECURSIVE SumInFlight(_)
SumInFlight(n) ==
  IF n = 0 THEN 0 ELSE RunInFlight(runs[n]) + SumInFlight(n - 1)

\* Requests of the Tags page and of the Login page that are in flight.
InFlight ==
  SumInFlight(MaxRuns) + Len(deleting) + (IF loginReq.sent THEN 1 ELSE 0)

\* The step handles the failure of a request of fetchTagsAndIdeas, of
\* confirmDeleteTag or of handleLogin.
FailureStep ==
  \/ lastDone'.failed # "none"
  \/ Len(deleting') < Len(deleting) /\ nruns' = nruns
  \/ /\ loginReq.sent /\ ~loginReq'.sent
     /\ loginError' \in {InvalidCredentialsMsg, AuthFailedMsg}

\* The step is a page mount, a click on Refresh, a click on the modal's
\* Delete or a submission of the login form.
UserTrigger ==
  \/ mounted' # mounted
  \/ isRefreshing' /\ ~isRefreshing
  \/ Len(deleting') > Len(deleting)
  \/ loginReq'.sent /\ ~loginReq.sent

\* The step is the answer to list-tags, which issues the per-tag fetches.
FanOut == \E r \in 1..MaxRuns : runs[r].pc = "getTags" /\ runs'[r].pc = "perTag"

\* C11: a step that handles a failed request issues no request (the failed
\* one leaves flight, nothing enters), and the number of requests in flight
\* grows only in a step triggered by the user or in the fan-out that follows
\* a successful list-tags answer.
C11_NoAutomaticRetry ==
  [][ /\ FailureStep => InFlight' = InFlight - 1
      /\ InFlight' > InFlight => (UserTrigger \/ FanOut) ]_vars

\* A run has just failed and no request is left in flight.
C11_FailedAndQuietWitness ==
  /\ lastDone.failed # "none"
  /\ error = LoadFailedMsg
  /\ InFlight = 0

\* ------------------------------------------------------------------------
\* Properties of the IdeaModal (SpecModal)
\* ------------------------------------------------------------------------

\* C12: the tags text of a saved idea, parsed when the modal opens an idea
\* carrying that text, gives the tag list the text was joined from, in the
\* same order; the empty list is saved as the empty text, and the empty text
\* is parsed to the empty list.
C12_TagRoundTrip ==
  /\ stored.made /\ opened.made /\ opened.text = stored.idea.tags
       => opened.result = stored.list
  /\ stored.made /\ stored.list = << >> => stored.idea.tags = << >>
  /\ opened.made /\ opened.text = << >> => opened.result = << >>

\* C13: no tag name of the modal's tag list contains the delimiter.
C13_NoDelimiterInTagName ==
  \A i \in DOMAIN modalTags : ~Includes(modalTags[i], <<";">>)

\* ------------------------------------------------------------------------
\* Completion of the aggregation (SpecTags)
\* ------------------------------------------------------------------------

IsProjectionOf(leaf, idea) ==
  /\ leaf.id = idea.id
  /\ leaf.name = IF idea.title = Absent \/ idea.title = ""
                 THEN "Untitled Idea" ELSE idea.title
  /\ leaf.description = IF idea.content = Absent THEN "" ELSE idea.content

\* C15: the idea list of every displayed tag node has the length and the
\* order of the per-tag response it was built from, and each leaf carries
\* the idea's id, its title or 'Untitled Idea' when the title is absent or
\* empty, and its content or '' when the content is absent; the leaves of
\* the unassigned bucket are projected from the list-ideas response in the
\* same way.
C15_LeavesProjectResponses ==
  /\ tagsFrom # 0 =>
       /\ Len(tags) = Len(tagsSrc)
       /\ \A t \in DOMAIN tags :
            /\ Len(tags[t].ideas) = Len(tagsSrc[t])
            /\ \A k \in DOMAIN tags[t].ideas :
                 IsProjectionOf(tags[t].ideas[k], tagsSrc[t][k])
  /\ untaggedFrom # 0 =>
       \A k \in DOMAIN untaggedIdeas :
         \E idea \in Range(untaggedSrc.all) :
           IsProjectionOf(untaggedIdeas[k], idea)

\* Displayed tag nodes hold a leaf for an idea with an empty title, one for
\* an idea without a title and one for an idea without content.
C15_FallbacksWitness ==
  LET Shown(P(_)) ==
        \E t \in DOMAIN tags : \E k \in DOMAIN tags[t].ideas : P(tagsSrc[t][k])
      EmptyTitle(idea) == idea.title = ""
      NoTitle(idea) == idea.title = Absent
      NoContent(idea) == idea.content = Absent
  IN  /\ tagsFrom # 0
      /\ Shown(EmptyTitle)
      /\ Shown(NoTitle)
      /\ Shown(NoContent)

\* ------------------------------------------------------------------------
\* Classification of the rendered nodes (SpecAgg)
\* ------------------------------------------------------------------------

\* What the claim asks of the branch TagItem takes for one node.
ClassifiedAsClaimed(item) ==
  LET ideasNonEmpty == "ideas" \in DOMAIN item /\ item.ideas # << >>
      descriptionNonEmpty ==
        "description" \in DOMAIN item /\ item.description # ""
  IN  /\ ItemKind(item) \in {"tag", "idea", "emptyTag"}
      /\ ItemKind(item) = "tag" <=> ideasNonEmpty
      /\ ItemKind(item) = "idea" <=> ~ideasNonEmpty /\ descriptionNonEmpty
      /\ ItemKind(item) = "emptyTag"
           <=> ~ideasNonEmpty /\ ~descriptionNonEmpty

\* C16: every node the page renders (tag nodes, their leaves, the leaves of
\* the unassigned bucket) is a tag section iff its ideas list is non-empty,
\* otherwise an idea leaf iff its description is non-empty, otherwise an
\* empty tag; the trash button is offered for the empty tags and only them.
C16_ThreeWayClassification ==
  /\ \A t \in Range(tags) :
       /\ ClassifiedAsClaimed(t)
       /\ \A l \in Range(t.ideas) : ClassifiedAsClaimed(l)
       /\ t.ideas = << >> <=> t.name \in DeletableNames
  /\ \A l \in Range(untaggedIdeas) :
       /\ ClassifiedAsClaimed(l)
       /\ l.description = "" => l.name \in DeletableNames

\* The page shows a tag section, a tag without ideas, an idea leaf with a
\* description and a leaf without one.
C16_AllKindsWitness ==
  /\ \E t \in Range(tags) :
       /\ ItemKind(t) = "tag"
       /\ \E l \in Range(t.ideas) : ItemKind(l) = "idea"
       /\ \E l \in Range(t.ideas) : ItemKind(l) = "emptyTag"
  /\ \E t \in Range(tags) : ItemKind(t) = "emptyTag"

\* DashPending holds a create or update request whose body satisfies P.
SaveInFlight(P(_)) ==
  \E k \in DOMAIN dashPending :
    /\ dashPending[k].kind \in {"createIdea", "updateIdea"}
    /\ P(dashPending[k].body)

\* A form, or a request body, without a title or without a content.
Incomplete(fd) == fd.title = << >> \/ fd.content = << >>

\* C17: no create or update request ever carries an empty title or an empty
\* content, and a submit of the form while one of the two is empty issues
\* no request, does not start saving and leaves the idea list as it is.
C17_EmptyFieldsRejectedBeforeNetwork ==
  /\ [](~SaveInFlight(Incomplete))
  /\ [][ SubmitForm /\ Incomplete(formData)
           => /\ dashPending' = dashPending
              /\ dashIssued' = dashIssued
              /\ ideas' = ideas
              /\ isSaving' = isSaving ]_vars

\* The form was submitted with a title and without a content: the browser
\* has reported the content, and nothing is being saved.
C17_RejectedSubmitWitness ==
  LET AnyBody(fd) == TRUE
  IN  /\ isModalOpen
      /\ formInvalid = "content"
      /\ formData.title # << >>
      /\ formData.content = << >>
      /\ ~isSaving
      /\ ~SaveInFlight(AnyBody)

\* ------------------------------------------------------------------------
\* The verifier's acceptance window (SpecLogin)
\* ------------------------------------------------------------------------

\* The time steps whose codes are in reach of the clock.
Steps == (0 - Tolerance)..(MaxStep + Tolerance)

\* Step s is more than the tolerance away from the current step.
OutOfWindow(s) == s - now > Tolerance \/ now - s > Tolerance

\* C18: at every time step the verifier accepts the enrolled email with the
\* code of the current step and rejects it with a code that is valid only
\* for a step more than the tolerance away; a login answered in the last
\* step was accepted or rejected accordingly, the rejected one with the
\* generic invalid-credentials message.
C18_AcceptanceWindow ==
  /\ \A s \in Steps :
       LET response ==
             VerifyOtp([email |-> EnrolledEmail, otp_code |-> CodeAt(s)])
           accepted == response.data.status = "success"
       IN  /\ s = now => accepted
           /\ OutOfWindow(s) => ~accepted
  /\ lastVerify.made /\ lastVerify.credentials.email = EnrolledEmail =>
       /\ lastVerify.credentials.otp_code = CodeAt(now) => lastVerify.accepted
       /\ \A s \in Steps :
            lastVerify.credentials.otp_code = CodeAt(s) /\ OutOfWindow(s)
              => /\ ~lastVerify.accepted
                 /\ lastVerify.error = InvalidCredentialsMsg

\* The code of step 0 was submitted for the enrolled email and answered
\* with a rejection after the window had passed.
C18_LateCodeRejectedWitness ==
  /\ lastVerify.made
  /\ lastVerify.credentials = [email |-> EnrolledEmail, otp_code |-> CodeAt(0)]
  /\ now > Tolerance
  /\ ~lastVerify.accepted
  /\ isAuthenticated # "true"

\* ------------------------------------------------------------------------
\* Route protection (SpecLogin)
\* ------------------------------------------------------------------------

ProtectedPaths == {"/dashboard", "/table-of-contents"}

\* C19: a protected page is rendered only while the flag is exactly
\* 'true', and opening a protected path in any other state (flag absent,
\* cleared by logout, or another value) ends on the login page '/'.
C19_ProtectedOnlyWhileFlagTrue ==
  /\ [](route \in ProtectedPaths => isAuthenticated = "true")
  /\ [][ \A path \in ProtectedPaths :
           VisitProtected(path) /\ isAuthenticated # "true" => route' = "/" ]_vars
  /\ [][ isAuthenticated = "true" /\ isAuthenticated' # "true"
           => route' = "/" ]_vars

\* The second protected page is shown to a logged-in user: only opening
\* its path leads there.
C19_ProtectedPageWitness ==
  /\ route = "/table-of-contents"
  /\ isAuthenticated = "true"
  /\ verified

\* ------------------------------------------------------------------------
\* Search and similar results (SpecDash)
\* ------------------------------------------------------------------------

\* C20: once the search term has been changed, and until the Similar
\* button is pressed again, the grid does not show similar results,
\* whether or not a similar-ideas request was in flight at the time of
\* typing.
C20_TypingResetsSimilarResults == typedSince => ~showSimilarResults

\* ------------------------------------------------------------------------
\* C21: a delete-tag request is issued only from the open confirmation
\* modal and names the tag the modal was opened for (the name passed to the
\* handleDeleteTag that opened it, held in tagToDelete while it is open);
\* a step that closes the modal issues no request and clears tagToDelete.
\* ------------------------------------------------------------------------
DeleteIssued == Len(deleting') > Len(deleting)

ModalOpenedFor(tagName) ==
  /\ showDeleteModal' /\ tagToDelete' = tagName
  /\ tagName \in DeletableNames

C21_DeleteOnlyAfterConfirm ==
  /\ [](showDeleteModal => tagToDelete # "")
  /\ [][ /\ DeleteIssued =>
              /\ showDeleteModal /\ showDeleteModal'
              /\ deleting' = Append(deleting, tagToDelete)
              /\ tagToDelete' = tagToDelete
         /\ (tagToDelete' # tagToDelete /\ tagToDelete' # "") =>
              (ModalOpenedFor(tagToDelete') /\ ~DeleteIssued)
         /\ (showDeleteModal /\ ~showDeleteModal') =>
              (tagToDelete' = "" /\ ~DeleteIssued) ]_vars

C21_ConfirmedDeleteWitness ==
  /\ showDeleteModal
  /\ deleting # << >>
  /\ deleting[Len(deleting)] = tagToDelete
  /\ tagToDelete \in TagNames

\* ------------------------------------------------------------------------
\* C22: apart from the user's Cancel / X, the confirmation modal is closed
\* and tagToDelete cleared only by the step that finishes the refresh run
\* started after a successful delete-tag request; a failed delete-tag
\* request leaves the modal and tagToDelete as they are, sets the delete
\* error message and starts no refresh run.
\* ------------------------------------------------------------------------
DeleteTagAnswered == Len(deleting') < Len(deleting)

RefreshStarted ==
  /\ nruns' = nruns + 1
  /\ runs'[nruns'].origin = "delete"
  /\ runs'[nruns'].pc = "getTags"

RefreshAfterDeleteFinished ==
  \E r \in 1..MaxRuns :
    /\ runs[r].origin = "delete"
    /\ runs[r].pc # "done" /\ runs'[r].pc = "done"
    /\ ~isLoading'

DeleteRejected ==
  /\ nruns' = nruns /\ runs' = runs
  /\ error' = DeleteFailedMsg
  /\ ~isDeleting'

C22_ModalClosedOnlyAfterRefresh ==
  [][ /\ (showDeleteModal /\ ~showDeleteModal') =>
           \/ CloseDeleteModal
           \/ RefreshAfterDeleteFinished /\ tagToDelete' = ""
      /\ DeleteTagAnswered =>
           /\ UNCHANGED << showDeleteModal, tagToDelete >>
           /\ RefreshStarted \/ DeleteRejected
      /\ (\E r \in 1..MaxRuns : runs[r].origin # "delete"
                                /\ runs'[r].origin = "delete") =>
           DeleteTagAnswered ]_vars

C22_FailedDeleteKeepsModalWitness ==
  /\ showDeleteModal
  /\ tagToDelete \in TagNames
  /\ error = DeleteFailedMsg
  /\ deleting = << >>
  /\ ~isDeleting
  /\ \A r \in 1..MaxRuns : runs[r].origin # "delete"

\* ------------------------------------------------------------------------
\* C23: whatever Edit, New and close-modal steps came before, a save request
\* is updateIdea for idea X exactly when the modal was last opened by Edit
\* on X, and createIdea exactly when it was last opened by New; a save that
\* succeeds closes the modal and clears editingIdea, a save that fails
\* leaves both unchanged.
\* ------------------------------------------------------------------------
IsSave(req) == req.kind \in {"updateIdea", "createIdea"}

Saves(pending) == {k \in DOMAIN pending : IsSave(pending[k])}

SaveIssued ==
  /\ Len(dashPending') = Len(dashPending) + 1
  /\ IsSave(dashPending'[Len(dashPending')])

SaveSucceeded ==
  /\ Cardinality(Saves(dashPending')) < Cardinality(Saves(dashPending))
  /\ Len(dashPending') = Len(dashPending)

SaveRejected ==
  /\ Cardinality(Saves(dashPending')) < Cardinality(Saves(dashPending))
  /\ Len(dashPending') < Len(dashPending)

C23_SaveFollowsLastOpening ==
  [][ /\ SaveIssued =>
           LET req == dashPending'[Len(dashPending')] IN
             /\ req.kind = "updateIdea" <=> lastOpen.how = "Edit"
             /\ req.kind = "createIdea" <=> lastOpen.how = "New"
             /\ req.kind = "updateIdea" => req.id = lastOpen.idea.id
      /\ SaveSucceeded => (~isModalOpen' /\ editingIdea' = NoIdea)
      /\ SaveRejected => UNCHANGED << isModalOpen, editingIdea >> ]_vars

C23_CreateAfterEditAndCloseWitness ==
  /\ opened.made
  /\ lastOpen.how = "New"
  /\ \E k \in Saves(dashPending) : dashPending[k].kind = "createIdea"

\* ------------------------------------------------------------------------
\* C24: a Refresh of the table of contents issues its get-structure request
\* only in the step in which its update request succeeds; when the update
\* request fails no request is issued, tocStructure is unchanged and the
\* refresh error message is set.
\* ------------------------------------------------------------------------
TocRequests(pending, kind, origin) ==
  Cardinality({k \in DOMAIN pending : pending[k] = TocRequest(kind, origin)})

UpdatesInFlight(pending) ==
  TocRequests(pending, "updateTocStructure", "refresh")

RefreshFetches(pending) == TocRequests(pending, "getTocStructure", "refresh")

UpdateDone == UpdatesInFlight(tocPending') < UpdatesInFlight(tocPending)

RefreshFetchIssued == RefreshFetches(tocPending') > RefreshFetches(tocPending)

C24_UpdateThenFetch ==
  [][ /\ RefreshFetchIssued =>
           /\ UpdateDone
           /\ tocError' = tocError
           /\ Len(tocPending') = Len(tocPending)
      /\ (UpdateDone /\ tocError' # tocError) =>
           /\ ~RefreshFetchIssued
           /\ Len(tocPending') = Len(tocPending) - 1
           /\ tocStructure' = tocStructure
           /\ tocError' = TocRefreshFailedMsg
      /\ (UpdateDone /\ ~RefreshFetchIssued) =>
           tocError' = TocRefreshFailedMsg ]_vars

C24_FetchAfterUpdateWitness ==
  /\ tocRefreshing
  /\ RefreshFetches(tocPending) = 1
  /\ UpdatesInFlight(tocPending) = 0
  /\ tocError = Null

\* ------------------------------------------------------------------------
\* C25: once the save started from the modal has completed (no createIdea /
\* updateIdea request is in flight any more), isSaving is false again, so
\* the Save/Update button is enabled.
\* ------------------------------------------------------------------------
C25_SavingFlagReturnsToFalse == Saves(dashPending) = {} => ~isSaving

\* ------------------------------------------------------------------------
\* C26: every delete-tag request in flight carries the name of a tag that
\* list-tags returns, never the title of an idea.
\* ------------------------------------------------------------------------
C26_DeleteTargetsTagsOnly ==
  \A k \in DOMAIN deleting : deleting[k] \in TagNames

\* ------------------------------------------------------------------------
\* C27: isLoading is true whenever a fetchTagsAndIdeas run has not yet
\* reached its finally, also when runs started by the mount, by Refresh and
\* by a confirmed delete overlap.
\* ------------------------------------------------------------------------
C27_LoadingWhileAnyRunPending == ~NoRunInFlight => isLoading

====
